---------------------------- MODULE Spec2Model ----------------------------
(***************************************************************************)
(* Model of json_summarizer.py: the Streamlit page main() and the helpers  *)
(* it calls (process_selected_component, summarize_with_llm,               *)
(* normalize_field_name, format_comments).                                 *)
(*                                                                         *)
(* A Python str is a sequence of code points.  A JSON value is a record    *)
(* [t, s, l]: t is "str", "num" or "list", s the text of a str, l the      *)
(* elements of a list.  An element of a Comment list is a dict that has a  *)
(* 'comment' key with a str value (t = "str"), with a number value         *)
(* (t = "num"), or has no such key (t = "missing").  A dict (one issue) is *)
(* a sequence of [k, v] pairs in key iteration order, keys pairwise        *)
(* different.                                                              *)
(***************************************************************************)
EXTENDS Integers, Sequences, FiniteSets, TLC

VARIABLES
    pc,                 \* position of the page run / of the direct call
    json_data,          \* json.load(uploaded_file)
    components,         \* line 102
    selected_component, \* st.selectbox value / argument
    filtered_data,      \* line 110
    table_data,         \* lines 116-133
    additional_text,    \* st.text_area value / argument
    combined_text,      \* argument handed to summarize_with_llm
    llm_prompt,         \* user message handed to the chat completion
    result,             \* return value of process_selected_component
    errors,             \* st.error calls of the run, in order
    field_name,         \* argument of a direct normalize_field_name call
    item_index,         \* which issue a direct call was given
    resolved,           \* return value of a direct normalize_field_name call
    formatted_comments, \* return value of a direct format_comments call
    exc                 \* exception that left a directly called function

vars == <<pc, json_data, components, selected_component, filtered_data,
          table_data, additional_text, combined_text, llm_prompt, result,
          errors, field_name, item_index, resolved, formatted_comments, exc>>

(***************************************************************************)
(* Bounds of the model.                                                    *)
(***************************************************************************)
MaxRecords == 3

(***************************************************************************)
(* String literals of the source.                                          *)
(***************************************************************************)
KeyComponent == <<67, 111, 109, 112, 111, 110, 101, 110, 116>>

KeyComment == <<67, 111, 109, 109, 101, 110, 116>>

FieldComponent == <<99, 111, 109, 112, 111, 110, 101, 110, 116>>

FieldJiraId == <<106, 105, 114, 97, 105, 100>>

FieldSummary == <<115, 117, 109, 109, 97, 114, 121>>

FieldDescription == <<100, 101, 115, 99, 114, 105, 112, 116, 105, 111, 110>>

FieldCreatedOn == <<99, 114, 101, 97, 116, 101, 100, 111, 110>>

FieldUpdatedOn == <<117, 112, 100, 97, 116, 101, 100, 111, 110>>

NotAvailable == <<78, 47, 65>>

Ellipsis == <<46, 46, 46>>

Newline == <<10>>

BlankLine == <<10, 10>>

DotSpace == <<46, 32>>

PromptPrefix ==
    <<80, 108, 101, 97, 115, 101, 32, 112, 114, 111, 118, 105, 100, 101, 32,
      97, 32, 99, 111, 110, 99, 105, 115, 101, 32, 115, 117, 109, 109, 97,
      114, 121, 32, 111, 102, 32, 116, 104, 101, 32, 102, 111, 108, 108, 111,
      119, 105, 110, 103, 32, 116, 101, 120, 116, 32, 105, 110, 32, 115, 116,
      101, 112, 115, 58, 10, 10>>

MaxCommentLen == 100

KeptCommentLen == 97

MaxDescriptionLen == 100

(***************************************************************************)
(* Values and outcomes.                                                    *)
(***************************************************************************)
VStr(s) == [t |-> "str", s |-> s, l |-> <<>>]

VNum == [t |-> "num", s |-> <<>>, l |-> <<>>]

VList(l) == [t |-> "list", s |-> <<>>, l |-> l]

Ok(v) == [ok |-> TRUE, exc |-> "", val |-> v]

Raise(e) == [ok |-> FALSE, exc |-> e, val |-> <<>>]

NoneResult == [some |-> FALSE, Component |-> <<>>, Analysis |-> <<>>]

(***************************************************************************)
(* Python built-ins the source uses.                                       *)
(***************************************************************************)
Lower(s) == [i \in 1..Len(s) |-> IF s[i] \in 65..90 THEN s[i] + 32 ELSE s[i]]

HasKey(d, k) == \E i \in 1..Len(d) : d[i].k = k

Get(d, k) == d[CHOOSE i \in 1..Len(d) : d[i].k = k].v

StrLess(a, b) ==
    \E i \in 1..Len(b) :
        /\ \A j \in 1..(i - 1) : j <= Len(a) /\ a[j] = b[j]
        /\ (i > Len(a) \/ a[i] < b[i])

\* Sorted with reverse=True.
RECURSIVE SortedDescending(_)
SortedDescending(S) ==
    IF S = {} THEN <<>>
    ELSE LET m == CHOOSE x \in S : \A y \in S : x = y \/ StrLess(y, x)
         IN  <<m>> \o SortedDescending(S \ {m})

RECURSIVE Sorted(_)
Sorted(S) ==
    IF S = {} THEN <<>>
    ELSE LET m == CHOOSE x \in S : \A y \in S : x = y \/ StrLess(x, y)
         IN  <<m>> \o Sorted(S \ {m})

RECURSIVE Join(_, _)
Join(sep, parts) ==
    IF parts = <<>> THEN <<>>
    ELSE IF Len(parts) = 1 THEN parts[1]
    ELSE parts[1] \o sep \o Join(sep, Tail(parts))

ReplaceNewlines(s) == [i \in 1..Len(s) |-> IF s[i] = 10 THEN 32 ELSE s[i]]

RECURSIVE Decimal(_)
Decimal(n) ==
    IF n < 10 THEN <<48 + n>>
    ELSE Decimal(n \div 10) \o <<48 + (n % 10)>>

(***************************************************************************)
(* item['Component'].lower() of lines 43, 102 and 110: the key is looked   *)
(* up exactly (KeyError when absent) and only a str has lower().           *)
(***************************************************************************)
ComponentLower(item) ==
    IF ~HasKey(item, KeyComponent) THEN Raise("KeyError")
    ELSE IF Get(item, KeyComponent).t # "str" THEN Raise("AttributeError")
    ELSE Ok(Lower(Get(item, KeyComponent).s))

FirstFailing(data) ==
    LET bad == {i \in 1..Len(data) : ~ComponentLower(data[i]).ok}
    IN  IF bad = {} THEN 0 ELSE CHOOSE i \in bad : \A j \in bad : i <= j

(***************************************************************************)
(* Line 102: sorted(list(set(item['Component'].lower() for item in ...))). *)
(***************************************************************************)
DistinctComponents(data) ==
    IF FirstFailing(data) # 0
    THEN Raise(ComponentLower(data[FirstFailing(data)]).exc)
    ELSE Ok(Sorted({ComponentLower(data[i]).val : i \in 1..Len(data)}))

(***************************************************************************)
(* Line 110: [item for item in json_data if item['Component'].lower() ==   *)
(* selected_component.lower()].                                            *)
(***************************************************************************)
\* The comparison without lower() on the side of the issue.
IsSelectedKeepingCase(item, selected) ==
    Get(item, KeyComponent).s = Lower(selected)

IsSelected(item, selected) == ComponentLower(item).val = Lower(selected)

FilterByComponent(data, selected) ==
    IF FirstFailing(data) # 0
    THEN Raise(ComponentLower(data[FirstFailing(data)]).exc)
    ELSE Ok(SelectSeq(data, LAMBDA item : IsSelected(item, selected)))

(***************************************************************************)
(* normalize_field_name, lines 68-76.                                      *)
(***************************************************************************)
\* The scan comparing key.lower() with the field name as given.
NormalizeFieldNameAsGiven(field, data) ==
    IF HasKey(data, field) THEN Get(data, field)
    ELSE LET hits == {i \in 1..Len(data) : Lower(data[i].k) = field}
         IN  IF hits = {} THEN VStr(NotAvailable)
             ELSE data[CHOOSE i \in hits : \A j \in hits : i <= j].v

NormalizeFieldName(field, data) ==
    IF HasKey(data, field) THEN Get(data, field)
    ELSE LET hits == {i \in 1..Len(data) : Lower(data[i].k) = Lower(field)}
         IN  IF hits = {} THEN VStr(NotAvailable)
             ELSE data[CHOOSE i \in hits : \A j \in hits : i <= j].v

(***************************************************************************)
(* format_comments, lines 78-87.  c['comment'] raises KeyError on a dict   *)
(* without the key and TypeError on a character of a str; a number has no  *)
(* replace(); enumerate() of a number raises TypeError.                    *)
(***************************************************************************)
\* The cut of the description column (line 127) applied to a comment.
TruncateAtLimit(text) ==
    IF Len(text) > MaxCommentLen
    THEN SubSeq(text, 1, MaxCommentLen) \o Ellipsis
    ELSE text

Truncate(text) ==
    IF Len(text) > MaxCommentLen
    THEN SubSeq(text, 1, KeptCommentLen) \o Ellipsis
    ELSE text

FormatLine(i, c) == Decimal(i) \o DotSpace \o Truncate(ReplaceNewlines(c.s))

FormatComments(comments) ==
    IF comments.t = "num" THEN Raise("TypeError")
    ELSE IF comments.t = "str"
    THEN IF comments.s = <<>> THEN Ok(<<>>) ELSE Raise("TypeError")
    ELSE LET bad == {i \in 1..Len(comments.l) : comments.l[i].t # "str"}
             first == CHOOSE i \in bad : \A j \in bad : i <= j
         IN  IF bad # {}
             THEN IF comments.l[first].t = "missing"
                  THEN Raise("KeyError") ELSE Raise("AttributeError")
             ELSE Ok(Join(Newline, [i \in 1..Len(comments.l) |->
                                        FormatLine(i, comments.l[i])]))

(***************************************************************************)
(* process_selected_component, lines 41-45: the comments of the issues of  *)
(* the selected component.  item.get('Comment', []) and                    *)
(* comment_obj.get('comment', '') have defaults; iterating a number raises *)
(* TypeError, a character of a str has no get().                           *)
(***************************************************************************)
CommentGet(comment_obj) ==
    IF comment_obj.t = "missing" THEN [t |-> "str", s |-> <<>>]
    ELSE comment_obj

ItemComments(item) ==
    IF HasKey(item, KeyComment) THEN Get(item, KeyComment) ELSE VList(<<>>)

RECURSIVE AggregateFrom(_, _, _, _)
AggregateFrom(data, selected, i, aggregated_comments) ==
    IF i > Len(data) THEN Ok(aggregated_comments)
    ELSE IF ~ComponentLower(data[i]).ok
    THEN Raise(ComponentLower(data[i]).exc)
    ELSE IF ~IsSelected(data[i], selected)
    THEN AggregateFrom(data, selected, i + 1, aggregated_comments)
    ELSE LET cm == ItemComments(data[i])
         IN  IF cm.t = "num" THEN Raise("TypeError")
             ELSE IF cm.t = "str" /\ cm.s # <<>> THEN Raise("AttributeError")
             ELSE AggregateFrom(data, selected, i + 1,
                      aggregated_comments \o
                      [j \in 1..Len(cm.l) |-> CommentGet(cm.l[j])])

AggregateComments(data, selected) == AggregateFrom(data, selected, 1, <<>>)

(***************************************************************************)
(* Lines 47-52: '\n'.join(...) raises TypeError on a non-str element.      *)
(***************************************************************************)
\* The additional text appended after a single newline.
CombinedTextSingleNewline(aggregated_comments, extra) ==
    IF \E i \in 1..Len(aggregated_comments) : aggregated_comments[i].t # "str"
    THEN Raise("TypeError")
    ELSE Ok(Join(Newline, [i \in 1..Len(aggregated_comments) |->
                               aggregated_comments[i].s])
            \o Newline \o extra)

CombinedText(aggregated_comments, extra) ==
    IF \E i \in 1..Len(aggregated_comments) : aggregated_comments[i].t # "str"
    THEN Raise("TypeError")
    ELSE Ok(Join(Newline, [i \in 1..Len(aggregated_comments) |->
                               aggregated_comments[i].s])
            \o BlankLine \o extra)

(***************************************************************************)
(* process_selected_component up to the call of line 55: what the function *)
(* does next.  "call": summarize_with_llm(text); "none": return None of    *)
(* line 62; "error": the handler of lines 64-66.                           *)
(***************************************************************************)
\* The function without the test of line 47.
ProcessOutcomeWithoutEmptyTest(data, selected, extra) ==
    LET agg == AggregateComments(data, selected)
    IN  IF ~agg.ok THEN [kind |-> "error", exc |-> agg.exc, text |-> <<>>]
        ELSE LET txt == CombinedText(agg.val, extra)
             IN  IF ~txt.ok
                 THEN [kind |-> "error", exc |-> txt.exc, text |-> <<>>]
                 ELSE [kind |-> "call", exc |-> "", text |-> txt.val]

ProcessOutcome(data, selected, extra) ==
    LET agg == AggregateComments(data, selected)
    IN  IF ~agg.ok THEN [kind |-> "error", exc |-> agg.exc, text |-> <<>>]
        ELSE IF agg.val = <<>> THEN [kind |-> "none", exc |-> "", text |-> <<>>]
        ELSE LET txt == CombinedText(agg.val, extra)
             IN  IF ~txt.ok
                 THEN [kind |-> "error", exc |-> txt.exc, text |-> <<>>]
                 ELSE [kind |-> "call", exc |-> "", text |-> txt.val]

(***************************************************************************)
(* summarize_with_llm, line 23: the user message.                          *)
(***************************************************************************)
Prompt(text) == PromptPrefix \o text

(***************************************************************************)
(* main, lines 117-133: one row of the table.                              *)
(***************************************************************************)
DescriptionCell(v) ==
    IF v.t = "num" THEN Raise("TypeError")
    ELSE IF v.t = "str"
    THEN IF Len(v.s) > MaxDescriptionLen
         THEN Ok(VStr(SubSeq(v.s, 1, MaxDescriptionLen) \o Ellipsis))
         ELSE Ok(v)
    ELSE IF Len(v.l) > MaxDescriptionLen THEN Raise("TypeError") ELSE Ok(v)

TableRow(item) ==
    IF ~HasKey(item, KeyComment) THEN Raise("KeyError")
    ELSE LET fc == FormatComments(Get(item, KeyComment))
             ds == DescriptionCell(NormalizeFieldName(FieldDescription, item))
         IN  IF ~fc.ok THEN Raise(fc.exc)
             ELSE IF ~ds.ok THEN Raise(ds.exc)
             ELSE Ok([JiraId |-> NormalizeFieldName(FieldJiraId, item),
                      Component |-> NormalizeFieldName(FieldComponent, item),
                      Summary |-> NormalizeFieldName(FieldSummary, item),
                      Description |-> ds.val,
                      CreatedOn |-> NormalizeFieldName(FieldCreatedOn, item),
                      UpdatedOn |-> NormalizeFieldName(FieldUpdatedOn, item),
                      Comments |-> fc.val])

BuildTable(filtered) ==
    LET bad == {i \in 1..Len(filtered) : ~TableRow(filtered[i]).ok}
    IN  IF bad # {}
        THEN Raise(TableRow(filtered[CHOOSE i \in bad : \A j \in bad : i <= j]).exc)
        ELSE Ok([i \in 1..Len(filtered) |-> TableRow(filtered[i]).val])

(***************************************************************************)
(* Inputs: the uploaded files and the values the widgets can hold.         *)
(***************************************************************************)
KV(k, v) == [k |-> k, v |-> v]

Text(s) == [t |-> "str", s |-> s]

MissingComment == [t |-> "missing", s |-> <<>>]

NumberComment == [t |-> "num", s |-> <<>>]

Rep(c, n) == [i \in 1..n |-> c]

Issue(name, comments) ==
    <<KV(KeyComponent, VStr(name)), KV(KeyComment, VList(comments))>>

UpperComponent == <<67, 79, 77, 80, 79, 78, 69, 78, 84>>

KeyDescription == <<68, 101, 115, 99, 114, 105, 112, 116, 105, 111, 110>>

NameUI == <<85, 73>>

NameUi == <<117, 105>>

NameAb == <<65, 98>>

NameB == <<98>>

NameOther == <<122, 122>>

TextX == <<120>>

TextY == <<121>>

TextTwoLines == <<120, 10, 121>>

TextFocus == <<102, 111, 99, 117, 115>>

TextReply == <<115, 117, 109>>

ComponentNames == {NameUI, NameUi, NameAb, NameB}

WellFormedIssues ==
    { Issue(NameUI, <<Text(TextX)>>),
      Issue(NameUi, <<Text(TextY), Text(TextX)>>),
      Issue(NameUI, <<>>),
      Issue(NameUi, <<>>),
      Issue(NameAb, <<Text(TextX)>>),
      Issue(NameB, <<Text(TextY), Text(TextX)>>) }

ContextIssues == {Issue(NameUI, <<Text(TextX)>>),
                  Issue(NameAb, <<Text(TextY), Text(TextX)>>)}

OneComment == KV(KeyComment, VList(<<Text(TextX)>>))

OddComponentIssues ==
    { <<OneComment>>,
      <<KV(FieldComponent, VStr(NameUi)), OneComment>>,
      <<KV(UpperComponent, VStr(NameUi)), OneComment>>,
      <<KV(KeyComponent, VNum), OneComment>>,
      <<KV(KeyComponent, VStr(<<>>)), OneComment>>,
      <<KV(FieldComponent, VStr(NameAb)), KV(KeyComponent, VStr(NameUi)),
        OneComment>>,
      <<KV(UpperComponent, VStr(NameAb)), KV(FieldComponent, VStr(NameUi)),
        OneComment>> }

OddCommentIssues ==
    { <<KV(KeyComponent, VStr(NameUi))>>,
      <<KV(KeyComponent, VStr(NameUi)),
        KV(KeyComment, VList(<<Text(TextX), MissingComment>>))>>,
      <<KV(KeyComponent, VStr(NameUi)),
        KV(KeyComment, VList(<<NumberComment>>))>>,
      <<KV(KeyComponent, VStr(NameUi)), KV(KeyComment, VStr(<<>>))>>,
      <<KV(KeyComponent, VStr(NameUi)), KV(KeyComment, VStr(TextX))>>,
      <<KV(KeyComponent, VStr(NameUi)), KV(KeyComment, VNum)>> }

LongIssues ==
    { Issue(NameUi, <<Text(Rep(120, MaxCommentLen + 50))>>),
      Issue(NameUi, <<Text(TextTwoLines), Text(Rep(120, MaxCommentLen))>>),
      Issue(NameUi, <<Text(Rep(10, MaxCommentLen + 1))>>),
      Issue(NameUi, [i \in 1..11 |-> Text(TextX)]),
      <<KV(KeyComponent, VStr(NameUi)),
        KV(KeyDescription, VStr(Rep(120, MaxDescriptionLen + 1))),
        KV(KeyComment, VList(<<>>))>> }

SpecialIssues == OddComponentIssues \cup OddCommentIssues \cup LongIssues

SeqsUpTo(S, n) == UNION {[1..k -> S] : k \in 0..n}

InsertAt(s, i, e) == SubSeq(s, 1, i - 1) \o <<e>> \o SubSeq(s, i, Len(s))

ExtraTexts == {<<>>, TextFocus}

LlmReplies == {TextReply, <<>>}

LlmFailures == {"APITimeoutError", "IndexError"}

CallNames == {NameUi, NameUI, NameOther}

CallInputs ==
    SeqsUpTo(ContextIssues, MaxRecords)
    \cup {InsertAt(s, i, e) : <<s, i, e>> \in
             {t \in SeqsUpTo(ContextIssues, MaxRecords - 1)
                    \X (1..MaxRecords) \X SpecialIssues : t[2] <= Len(t[1]) + 1}}

Uploads == SeqsUpTo(WellFormedIssues, MaxRecords) \cup CallInputs

FieldNames == {FieldComponent, KeyComponent, UpperComponent, FieldJiraId}

Range(s) == {s[i] : i \in 1..Len(s)}

(***************************************************************************)
(* The page: one run of main() from the upload to the summary.             *)
(***************************************************************************)
Init ==
    /\ pc = "start"
    /\ json_data = <<>>
    /\ components = <<>>
    /\ selected_component = <<>>
    /\ filtered_data = <<>>
    /\ table_data = <<>>
    /\ additional_text = <<>>
    /\ combined_text = <<>>
    /\ llm_prompt = <<>>
    /\ result = NoneResult
    /\ errors = <<>>
    /\ field_name = <<>>
    /\ item_index = 0
    /\ resolved = VStr(<<>>)
    /\ formatted_comments = <<>>
    /\ exc = ""

Report(site, e) == [site |-> site, exc |-> e]

\* Lines 94-99: a file is chosen and json.load parses it.
Upload(data) ==
    /\ pc = "start"
    /\ json_data' = data
    /\ pc' = "loaded"
    /\ UNCHANGED <<components, selected_component, filtered_data, table_data,
                   additional_text, combined_text, llm_prompt, result, errors,
                   field_name, item_index, resolved, formatted_comments, exc>>

\* Lines 99, 169-170: json.load raises JSONDecodeError.
UploadInvalid ==
    /\ pc = "start"
    /\ errors' = Append(errors, Report("json", "JSONDecodeError"))
    /\ pc' = "error"
    /\ UNCHANGED <<json_data, components, selected_component, filtered_data,
                   table_data, additional_text, combined_text, llm_prompt,
                   result, field_name, item_index, resolved,
                   formatted_comments, exc>>

\* Line 102, with the handler of lines 171-172.
Index ==
    /\ pc = "loaded"
    /\ LET r == DistinctComponents(json_data)
       IN  IF r.ok
           THEN /\ components' = r.val
                /\ pc' = "indexed"
                /\ UNCHANGED errors
           ELSE /\ errors' = Append(errors, Report("main", r.exc))
                /\ pc' = "error"
                /\ UNCHANGED components
    /\ UNCHANGED <<json_data, selected_component, filtered_data, table_data,
                   additional_text, combined_text, llm_prompt, result,
                   field_name, item_index, resolved, formatted_comments, exc>>

\* Lines 103-112, 166-167: the selectbox holds one of the options and line
\* 110 filters; an empty result ends the run with the warning of line 167.
Select(c) ==
    /\ pc = "indexed"
    /\ c \in Range(components)
    /\ selected_component' = c
    /\ LET r == FilterByComponent(json_data, c)
       IN  IF r.ok
           THEN /\ filtered_data' = r.val
                /\ pc' = IF r.val # <<>> THEN "filtered" ELSE "nodata"
                /\ UNCHANGED errors
           ELSE /\ errors' = Append(errors, Report("main", r.exc))
                /\ pc' = "error"
                /\ UNCHANGED filtered_data
    /\ UNCHANGED <<json_data, components, table_data, additional_text,
                   combined_text, llm_prompt, result, field_name, item_index,
                   resolved, formatted_comments, exc>>

\* Lines 103-110 with no option: the selectbox returns None, the list
\* comprehension of line 110 runs over no item, line 167 warns.
SelectNothing ==
    /\ pc = "indexed"
    /\ components = <<>>
    /\ filtered_data' = <<>>
    /\ pc' = "nodata"
    /\ UNCHANGED <<json_data, components, selected_component, table_data,
                   additional_text, combined_text, llm_prompt, result, errors,
                   field_name, item_index, resolved, formatted_comments, exc>>

\* Lines 112-151: the table of the filtered issues.
Display ==
    /\ pc = "filtered"
    /\ LET r == BuildTable(filtered_data)
       IN  IF r.ok
           THEN /\ table_data' = r.val
                /\ pc' = "shown"
                /\ UNCHANGED errors
           ELSE /\ errors' = Append(errors, Report("main", r.exc))
                /\ pc' = "error"
                /\ UNCHANGED table_data
    /\ UNCHANGED <<json_data, components, selected_component, filtered_data,
                   additional_text, combined_text, llm_prompt, result,
                   field_name, item_index, resolved, formatted_comments, exc>>

\* process_selected_component, lines 37-55 and 61-66, up to the request of
\* line 25 or to its return.
StartProcess(selected, extra) ==
    LET o == ProcessOutcome(json_data, selected, extra)
    IN  /\ result' = NoneResult
        /\ IF o.kind = "call"
           THEN /\ combined_text' = o.text
                /\ llm_prompt' = Prompt(o.text)
                /\ pc' = "llm"
                /\ UNCHANGED errors
           ELSE /\ combined_text' = <<>>
                /\ llm_prompt' = <<>>
                /\ pc' = "done"
                /\ errors' = IF o.kind = "error"
                             THEN Append(errors, Report("process", o.exc))
                             ELSE errors

\* Lines 157-162: the button is pressed with a text in the text area.
Summarize(extra) ==
    /\ pc = "shown"
    /\ additional_text' = extra
    /\ StartProcess(selected_component, extra)
    /\ UNCHANGED <<json_data, components, selected_component, filtered_data,
                   table_data, field_name, item_index, resolved,
                   formatted_comments, exc>>

\* Lines 25-35 and 57-60: the completion arrives and the dict is returned.
LlmReply(content) ==
    /\ pc = "llm"
    /\ result' = [some |-> TRUE, Component |-> selected_component,
                  Analysis |-> content]
    /\ pc' = "done"
    /\ UNCHANGED <<json_data, components, selected_component, filtered_data,
                   table_data, additional_text, combined_text, llm_prompt,
                   errors, field_name, item_index, resolved,
                   formatted_comments, exc>>

\* The call of line 55 outside the try block: the exception leaves.
LlmFailPropagates(e) ==
    /\ pc = "llm"
    /\ exc' = e
    /\ pc' = "done"
    /\ UNCHANGED <<json_data, components, selected_component, filtered_data,
                   table_data, additional_text, combined_text, llm_prompt,
                   result, errors, field_name, item_index, resolved,
                   formatted_comments>>

\* Lines 25-35 raise; the handler of lines 64-66 reports and returns None.
LlmFail(e) ==
    /\ pc = "llm"
    /\ errors' = Append(errors, Report("process", e))
    /\ result' = NoneResult
    /\ pc' = "done"
    /\ UNCHANGED <<json_data, components, selected_component, filtered_data,
                   table_data, additional_text, combined_text, llm_prompt,
                   field_name, item_index, resolved, formatted_comments, exc>>

Next ==
    \/ \E data \in Uploads : Upload(data)
    \/ UploadInvalid
    \/ Index
    \/ \E c \in ComponentNames \cup {<<>>, Lower(NameAb)} : Select(c)
    \/ SelectNothing
    \/ Display
    \/ \E extra \in ExtraTexts : Summarize(extra)
    \/ \E content \in LlmReplies : LlmReply(content)
    \/ \E e \in LlmFailures : LlmFail(e)

Spec == Init /\ [][Next]_vars

(***************************************************************************)
(* One function of the module called on loaded data, the way a caller      *)
(* other than main() uses it.  An exception that leaves the called         *)
(* function is kept in exc.                                                *)
(***************************************************************************)
InitCall ==
    /\ pc = "call"
    /\ json_data \in CallInputs
    /\ components = <<>>
    /\ selected_component = <<>>
    /\ filtered_data = <<>>
    /\ table_data = <<>>
    /\ additional_text = <<>>
    /\ combined_text = <<>>
    /\ llm_prompt = <<>>
    /\ result = NoneResult
    /\ errors = <<>>
    /\ field_name = <<>>
    /\ item_index = 0
    /\ resolved = VStr(<<>>)
    /\ formatted_comments = <<>>
    /\ exc = ""

\* The expression of line 102 on its own.
CallDistinct ==
    /\ pc = "call"
    /\ pc' = "distinct"
    /\ components' = DistinctComponents(json_data).val
    /\ exc' = DistinctComponents(json_data).exc
    /\ UNCHANGED <<json_data, selected_component, filtered_data, table_data,
                   additional_text, combined_text, llm_prompt, result, errors,
                   field_name, item_index, resolved, formatted_comments>>

\* The expression of line 110 on its own.
CallFilter(name) ==
    /\ pc = "call"
    /\ pc' = "filter"
    /\ selected_component' = name
    /\ filtered_data' = FilterByComponent(json_data, name).val
    /\ exc' = FilterByComponent(json_data, name).exc
    /\ UNCHANGED <<json_data, components, table_data, additional_text,
                   combined_text, llm_prompt, result, errors, field_name,
                   item_index, resolved, formatted_comments>>

\* normalize_field_name(field, json_data[i]).
CallResolve(field, i) ==
    /\ pc = "call"
    /\ i \in 1..Len(json_data)
    /\ pc' = "resolve"
    /\ field_name' = field
    /\ item_index' = i
    /\ resolved' = NormalizeFieldName(field, json_data[i])
    /\ UNCHANGED <<json_data, components, selected_component, filtered_data,
                   table_data, additional_text, combined_text, llm_prompt,
                   result, errors, formatted_comments, exc>>

\* format_comments(json_data[i]['Comment']) for an issue that has the key.
CallFormat(i) ==
    /\ pc = "call"
    /\ i \in 1..Len(json_data)
    /\ HasKey(json_data[i], KeyComment)
    /\ pc' = "format"
    /\ item_index' = i
    /\ formatted_comments' = FormatComments(Get(json_data[i], KeyComment)).val
    /\ exc' = FormatComments(Get(json_data[i], KeyComment)).exc
    /\ UNCHANGED <<json_data, components, selected_component, filtered_data,
                   table_data, additional_text, combined_text, llm_prompt,
                   result, errors, field_name, resolved>>

\* process_selected_component(json_data, name, extra).
CallProcess(name, extra) ==
    /\ pc = "call"
    /\ selected_component' = name
    /\ additional_text' = extra
    /\ StartProcess(name, extra)
    /\ UNCHANGED <<json_data, components, filtered_data, table_data,
                   field_name, item_index, resolved, formatted_comments, exc>>

NextCall ==
    \/ CallDistinct
    \/ \E name \in CallNames : CallFilter(name)
    \/ \E field \in FieldNames, i \in 1..MaxRecords + 1 : CallResolve(field, i)
    \/ \E i \in 1..MaxRecords + 1 : CallFormat(i)
    \/ \E name \in CallNames, extra \in ExtraTexts : CallProcess(name, extra)
    \/ \E content \in LlmReplies : LlmReply(content)
    \/ \E e \in LlmFailures : LlmFail(e)

SpecCall == InitCall /\ [][NextCall]_vars

(***************************************************************************)
(* Vocabulary of the properties.                                           *)
(***************************************************************************)
\* The comment texts of one issue, in order.
CommentTexts(issue) ==
    IF HasKey(issue, KeyComment) /\ Get(issue, KeyComment).t = "list"
    THEN [j \in 1..Len(Get(issue, KeyComment).l) |->
              Get(issue, KeyComment).l[j].s]
    ELSE <<>>

\* The comment texts of a list of issues: issue by issue, each in order.
RECURSIVE TextsOf(_)
TextsOf(issues) ==
    IF issues = <<>> THEN <<>>
    ELSE CommentTexts(Head(issues)) \o TextsOf(Tail(issues))

\* Texts separated by single newlines.
RECURSIVE NewlineSeparated(_)
NewlineSeparated(texts) ==
    IF Len(texts) = 0 THEN <<>>
    ELSE IF Len(texts) = 1 THEN texts[1]
    ELSE NewlineSeparated(SubSeq(texts, 1, Len(texts) - 1))
         \o <<10>> \o texts[Len(texts)]

\* The keys of an issue that spell "component" in some capitalization.
ComponentKeys(issue) ==
    {i \in 1..Len(issue) : Lower(issue[i].k) = FieldComponent}

\* The issue has no component field, or one that is not a string.
ComponentAbsentOrNonString(issue) ==
    \A i \in ComponentKeys(issue) : issue[i].v.t # "str"

\* The Comment field is a list of {comment: string} entries.
CommentsWellFormed(issue) ==
    /\ HasKey(issue, KeyComment)
    /\ Get(issue, KeyComment).t = "list"
    /\ \A j \in 1..Len(Get(issue, KeyComment).l) :
           Get(issue, KeyComment).l[j].t = "str"

\* What the caller of process_selected_component observes: the value
\* returned and the st.error calls made, with the exception each names.
Observed == [returned |-> result, reported |-> errors]

NoResultObserved == [returned |-> NoneResult, reported |-> <<>>]

SummarizationFailuresObserved ==
    {[returned |-> NoneResult, reported |-> <<Report("process", e)>>] :
        e \in LlmFailures}

(***************************************************************************)
(* C1.  When at least one comment is aggregated, the text handed to        *)
(* summarize_with_llm is the comment texts of the issues line 110 selected *)
(* (issues in their order, comments of an issue in their order) separated  *)
(* by single newlines, then a blank line, then the additional text.        *)
(***************************************************************************)
C1_PayloadIsCommentsThenExtraText ==
    (pc \in {"llm", "done"} /\ TextsOf(filtered_data) # <<>>)
        => combined_text = NewlineSeparated(TextsOf(filtered_data))
                           \o <<10, 10>> \o additional_text

C1_Witness ==
    /\ pc = "llm"
    /\ json_data = <<Issue(NameUI, <<Text(TextX)>>),
                     Issue(NameAb, <<Text(TextX)>>),
                     Issue(NameUi, <<Text(TextY), Text(TextX)>>)>>
    /\ selected_component = NameUi
    /\ additional_text = TextFocus
    /\ combined_text = <<120, 10, 121, 10, 120, 10, 10,
                         102, 111, 99, 117, 115>>

C4_LlmFailureIsReported ==
    [][(pc = "llm" /\ pc' # "llm" /\ ~result'.some)
        => /\ pc' = "done"
           /\ result' = NoneResult
           /\ exc' = ""
           /\ Len(errors') = Len(errors) + 1
           /\ SubSeq(errors', 1, Len(errors)) = errors
           /\ errors'[Len(errors')].site = "process"
           /\ errors'[Len(errors')].exc \in LlmFailures]_vars

C4_Witness ==
    /\ pc = "done"
    /\ combined_text # <<>>
    /\ result = NoneResult
    /\ errors = <<Report("process", "APITimeoutError")>>
    /\ exc = ""

(***************************************************************************)
(* C6.  An issue without a component field, or with one that is not a      *)
(* string, matches no filter and fails nothing: a page run over a list     *)
(* holding such an issue among well-formed ones does not end in an error.  *)
(***************************************************************************)
C6_OddComponentMatchesNothing ==
    (/\ \E i \in 1..Len(json_data) : ComponentAbsentOrNonString(json_data[i])
     /\ \A i \in 1..Len(json_data) : CommentsWellFormed(json_data[i]))
        => /\ pc # "error"
           /\ exc = ""
           /\ \A k \in 1..Len(errors) : errors[k].exc \in LlmFailures

(***************************************************************************)
(* C8.  The components of line 102 partition the issues: when every issue  *)
(* has a non-empty component, each issue is in the result of line 110 for  *)
(* exactly one entry of components, and no entry has an empty result.      *)
(***************************************************************************)
HasNonEmptyComponent(issue) ==
    /\ ~ComponentAbsentOrNonString(issue)
    /\ \A i \in ComponentKeys(issue) : issue[i].v.s # <<>>

C8_ComponentsPartitionIssues ==
    (/\ pc \in {"indexed", "filtered", "nodata", "shown", "llm", "done"}
     /\ \A i \in 1..Len(json_data) : HasNonEmptyComponent(json_data[i]))
        => /\ \A i \in 1..Len(json_data) :
                Cardinality({c \in Range(components) :
                    json_data[i] \in
                        Range(FilterByComponent(json_data, c).val)}) = 1
           /\ \A c \in Range(components) :
                FilterByComponent(json_data, c).val # <<>>
           /\ pc \in {"filtered", "shown", "llm", "done"}
                => /\ filtered_data # <<>>
                   /\ selected_component \in Range(components)

C8_Witness ==
    /\ pc = "filtered"
    /\ Len(json_data) = 3
    /\ Len(components) = 2
    /\ Len(filtered_data) = 2
    /\ filtered_data[1] # filtered_data[2]
    /\ \A i \in 1..Len(json_data) : HasNonEmptyComponent(json_data[i])

(***************************************************************************)
(* C9.  components holds the lower-cased component names of the issues,    *)
(* each once, in ascending lexicographic order.                            *)
(***************************************************************************)
RECURSIVE LexBefore(_, _)
LexBefore(a, b) ==
    IF b = <<>> THEN FALSE
    ELSE IF a = <<>> THEN TRUE
    ELSE IF Head(a) # Head(b) THEN Head(a) < Head(b)
    ELSE LexBefore(Tail(a), Tail(b))

C9_ComponentsSortedDistinctLower ==
    pc \in {"indexed", "filtered", "nodata", "shown", "llm", "done"}
        => /\ \A i \in 1..Len(components) - 1 :
                LexBefore(components[i], components[i + 1])
           /\ \A i \in 1..Len(components) :
                \A j \in 1..Len(components[i]) :
                    components[i][j] \notin 65..90
           /\ \A i \in 1..Len(json_data) :
                \E j \in 1..Len(components) :
                    components[j] = Lower(Get(json_data[i], KeyComponent).s)
           /\ \A j \in 1..Len(components) :
                \E i \in 1..Len(json_data) :
                    components[j] = Lower(Get(json_data[i], KeyComponent).s)

C9_Witness ==
    /\ pc = "indexed"
    /\ json_data = <<Issue(NameUI, <<Text(TextX)>>),
                     Issue(NameAb, <<Text(TextX)>>),
                     Issue(NameUi, <<>>)>>
    /\ components = <<Lower(NameAb), NameUi>>

(***************************************************************************)
(* C2.  For a lower-case name n, the filter of line 110 returns the issues *)
(* whose component, resolved without regard to the capitalization of the   *)
(* field name and lower-cased, is n: all of them, only them, in order.     *)
(***************************************************************************)
ResolvesTo(issue, n) ==
    /\ NormalizeFieldName(FieldComponent, issue).t = "str"
    /\ Lower(NormalizeFieldName(FieldComponent, issue).s) = n

C2_FilterReturnsResolvedMatches ==
    (pc = "filter" /\ selected_component = Lower(selected_component))
        => /\ exc = ""
           /\ filtered_data =
                SelectSeq(json_data,
                          LAMBDA issue : ResolvesTo(issue, selected_component))

(***************************************************************************)
(* C5.  A malformed Comment field (not a list, or an entry without the     *)
(* comment key) in an issue of the selected component ends the call in an  *)
(* outcome other than "no result" and other than a failure of the model,   *)
(* and no text is handed to summarize_with_llm.                            *)
(***************************************************************************)
MalformedCommentMet ==
    /\ pc \in {"llm", "done"}
    /\ \A i \in 1..Len(json_data) :
           /\ HasKey(json_data[i], KeyComponent)
           /\ Get(json_data[i], KeyComponent).t = "str"
    /\ \E i \in 1..Len(json_data) :
           /\ Lower(Get(json_data[i], KeyComponent).s)
                  = Lower(selected_component)
           /\ HasKey(json_data[i], KeyComment)
           /\ ~CommentsWellFormed(json_data[i])

C5_MalformedCommentIsReportedApart ==
    MalformedCommentMet
        => /\ pc = "done"
           /\ combined_text = <<>>
           /\ Observed # NoResultObserved
           /\ Observed \notin SummarizationFailuresObserved

(***************************************************************************)
(* C7.  normalize_field_name returns the same value for "component",       *)
(* "COMPONENT" and "Component", whatever keys the issue holds.             *)
(***************************************************************************)
ComponentSpellings == {FieldComponent, KeyComponent, UpperComponent}

C7_ResolveIgnoresRequestedCase ==
    (pc = "resolve" /\ field_name \in ComponentSpellings)
        => \A f \in ComponentSpellings :
               resolved = NormalizeFieldName(f, json_data[item_index])

(***************************************************************************)
(* C7, amended.  For an issue in which no two keys differ only by case,    *)
(* normalize_field_name returns the same value for "component",            *)
(* "COMPONENT" and "Component".                                            *)
(***************************************************************************)
C7_ResolveIgnoresRequestedCaseOfUniqueKey ==
    (/\ pc = "resolve"
     /\ field_name \in ComponentSpellings
     /\ Cardinality(ComponentKeys(json_data[item_index])) <= 1)
        => \A f \in ComponentSpellings :
               resolved = NormalizeFieldName(f, json_data[item_index])

C7_Witness ==
    /\ pc = "resolve"
    /\ field_name = UpperComponent
    /\ json_data[item_index] = Issue(NameUI, <<Text(TextX)>>)
    /\ resolved = VStr(NameUI)

(***************************************************************************)
(* C10.  For a list of {comment: string} entries format_comments returns   *)
(* one line per comment, in order, separated by newlines; line i is the    *)
(* decimal i, ". " and the text with newlines turned into spaces, whole    *)
(* when it has at most 100 characters, else its first 97 characters and    *)
(* "..."; the empty list gives the empty string.                           *)
(***************************************************************************)
RECURSIVE SplitLines(_)
SplitLines(s) ==
    LET breaks == {k \in 1..Len(s) : s[k] = 10}
        first == CHOOSE k \in breaks : \A m \in breaks : k <= m
    IN  IF breaks = {} THEN <<s>>
        ELSE <<SubSeq(s, 1, first - 1)>>
             \o SplitLines(SubSeq(s, first + 1, Len(s)))

IndexDigits(i) ==
    IF i < 10 THEN <<48 + i>> ELSE <<48 + (i \div 10), 48 + (i % 10)>>

ShownText(text) ==
    LET flat == [j \in 1..Len(text) |-> IF text[j] = 10 THEN 32 ELSE text[j]]
    IN  IF Len(flat) <= 100 THEN flat
        ELSE [j \in 1..100 |-> IF j <= 97 THEN flat[j] ELSE 46]

C10_FormatNumbersAndTruncates ==
    (pc = "format" /\ CommentsWellFormed(json_data[item_index]))
        => LET comments == Get(json_data[item_index], KeyComment).l
           IN  /\ exc = ""
               /\ IF comments = <<>> THEN formatted_comments = <<>>
                  ELSE SplitLines(formatted_comments) =
                           [i \in 1..Len(comments) |->
                                IndexDigits(i) \o <<46, 32>>
                                \o ShownText(comments[i].s)]

C10_Witness ==
    /\ pc = "format"
    /\ Get(json_data[item_index], KeyComment) =
           VList(<<Text(Rep(120, 150))>>)
    /\ Len(formatted_comments) = 3 + 100
    /\ SubSeq(formatted_comments, 101, 103) = <<46, 46, 46>>

============================================================================
